---- MODULE Spec2Model ----
(***************************************************************************)
(* Model of the e-commerce API services: ProductService and OrderService   *)
(* over two document collections (products, orders), the order pricing     *)
(* pipeline, the order read adapter (order_helper) and the pagination      *)
(* metadata builders.                                                      *)
(*                                                                         *)
(* Money is held in thousandths (19.99 is 19990) so that round(x, 2) is a  *)
(* real operation: it rounds to the nearest multiple of 10.                *)
(* An optional value (a dict key that may be missing, a field that may be  *)
(* None) is a sequence of length 0 or 1; a missing string key is Absent.   *)
(***************************************************************************)
EXTENDS Integers, Sequences, FiniteSets, TLC

VARIABLES
    products,   \* db.products: _id (canonical string) -> product document
    orders,     \* db["orders"]: _id (canonical string) -> order document
    nextProd,   \* index of the next _id insert_one hands out in products
    nextOrd,    \* index of the next _id insert_one hands out in orders
    clock,      \* datetime.utcnow(), strictly increasing over the stamps written
    last,       \* the last service call: [op, req, res]
    pg,         \* PaginationParams and total_items handed to the metadata builder
    meta,       \* the PaginationMeta built from pg, as a 0/1-length sequence
    inflight    \* the call between two of its storage steps, with what its
                \* first step read, as a 0/1-length sequence

vars == <<products, orders, nextProd, nextOrd, clock, last, pg, meta, inflight>>

store == <<products, orders, nextProd, nextOrd, clock>>

----------------------------------------------------------------------------
(* Bounds of the model *)

MaxClock == 3

MaxTotalItems == 30

MaxPageMeta == 4

(* Program constants *)

PageSizeLimit == 100

----------------------------------------------------------------------------
(* Values *)

Absent == "absent"

NoneV == <<>>

Some(v) == <<v>>

IsNone(o) == o = <<>>

\* datetime.isoformat(): the text of a timestamp
IsoFormat(t) == <<"iso", t>>

\* dict.get(key, default) on an optional value
Get(o, default) == IF o = <<>> THEN default ELSE o[1]

RECURSIVE SumSeq(_)
SumSeq(s) == IF s = <<>> THEN 0 ELSE s[1] + SumSeq(Tail(s))

SeqToSet(s) == {s[i] : i \in DOMAIN s}

\* The elements of the finite set S, ordered by key (a function on S with
\* distinct values), largest first when desc and smallest first otherwise
RECURSIVE SortBy(_, _, _)
SortBy(S, key, desc) ==
    IF S = {} THEN <<>>
    ELSE LET m == CHOOSE x \in S :
                    \A y \in S : IF desc THEN key[y] <= key[x] ELSE key[x] <= key[y]
         IN  <<m>> \o SortBy(S \ {m}, key, desc)

\* s[skip+1 .. skip+limit], as cursor.skip(skip).limit(limit) delivers it
Window(s, skip, limit) ==
    SubSeq(s, skip + 1, IF skip + limit < Len(s) THEN skip + limit ELSE Len(s))

----------------------------------------------------------------------------
(* bson.ObjectId: 24 hexadecimal digits, read case-insensitively, printed  *)
(* in lower case.  The ids are shortened to four digits.                   *)

ProductOids == <<"aa01", "aa02", "aa03">>

OrderOids == <<"0d01", "0d02">>

\* every well-formed spelling, with the ObjectId it denotes
OidSpelling ==
    ("aa01" :> "aa01") @@ ("AA01" :> "aa01") @@ ("aa02" :> "aa02") @@
    ("AA02" :> "aa02") @@ ("aa03" :> "aa03") @@ ("aa09" :> "aa09") @@
    ("0d01" :> "0d01") @@ ("0D01" :> "0d01") @@ ("0d02" :> "0d02")

ObjectIdIsValid(s) == s \in DOMAIN OidSpelling

\* ObjectId(s) for a valid s; str(ObjectId(s)) is the same canonical string
ObjectId(s) == OidSpelling[s]

\* the ids a caller may send: known, unknown, upper-case and malformed ones
ProductIdInputs == {"aa01", "aa02", "AA01", "zz"}

\* the ids delete_product is called with: a known one in both spellings, an
\* unknown and a malformed one
ProductDeleteInputs == {"aa01", "AA01", "aa09", "zz"}

OrderIdInputs == {"0d01", "0d02", "0D01", "zz"}

----------------------------------------------------------------------------
(* round(x, 2) on thousandths: nearest hundredth, ties to the even one *)

Round2(x) ==
    LET q == x \div 10
        r == x % 10
    IN  IF r < 5 THEN q * 10
        ELSE IF r > 5 THEN (q + 1) * 10
        ELSE IF q % 2 = 0 THEN q * 10 ELSE (q + 1) * 10

----------------------------------------------------------------------------
(* Text: the letters of every string the model uses, for the               *)
(* case-insensitive substring match of {"$regex": s, "$options": "i"}      *)

Letters ==
    ("Tee" :> <<"T", "e", "e">>) @@ ("Cap" :> <<"C", "a", "p">>) @@
    ("Sock" :> <<"S", "o", "c", "k">>) @@ ("Polo" :> <<"P", "o", "l", "o">>) @@
    ("cotton tee" :> <<"c", "o", "t", "t", "o", "n", " ", "t", "e", "e">>) @@
    ("wool cap" :> <<"w", "o", "o", "l", " ", "c", "a", "p">>) @@
    ("wool sock" :> <<"w", "o", "o", "l", " ", "s", "o", "c", "k">>) @@
    ("tee" :> <<"t", "e", "e">>) @@ ("wool" :> <<"w", "o", "o", "l">>)

LowerLetter ==
    ("T" :> "t") @@ ("C" :> "c") @@ ("S" :> "s") @@ ("P" :> "p")

Lower(c) == IF c \in DOMAIN LowerLetter THEN LowerLetter[c] ELSE c

LowerSeq(s) == [i \in DOMAIN s |-> Lower(s[i])]

\* needle occurs in hay as a contiguous run
Contains(hay, needle) ==
    \E i \in 0..(Len(hay) - Len(needle)) :
        \A j \in 1..Len(needle) : hay[i + j] = needle[j]

RegexMatchI(text, pattern) ==
    Contains(LowerSeq(Letters[text]), LowerSeq(Letters[pattern]))

----------------------------------------------------------------------------
(* schemas/product.py: the requests of the product service *)

\* ProductCreate bodies (price > 0 with two decimals, stock >= 0)
ProductCreateInputs ==
    { [name |-> "Tee", description |-> "cotton tee", price |-> 19990,
       category |-> "apparel", brand |-> "acme", tags |-> {"tee"},
       sizes |-> << [size |-> "M", stock |-> 0], [size |-> "XL", stock |-> 5] >>],
      [name |-> "Cap", description |-> "wool cap", price |-> 29990,
       category |-> "hats", brand |-> "acme", tags |-> {"wool"},
       sizes |-> << >>],
      [name |-> "Sock", description |-> "wool sock", price |-> 4500,
       category |-> "apparel", brand |-> "zeta", tags |-> {},
       sizes |-> << [size |-> "M", stock |-> 0] >>] }

\* ProductUpdate bodies: every field optional
ProductUpdateInputs ==
    { [id |-> "aa01", update |-> [name |-> NoneV, price |-> Some(24990)]],
      [id |-> "aa01", update |-> [name |-> Some("Polo"), price |-> NoneV]],
      [id |-> "aa02", update |-> [name |-> NoneV, price |-> NoneV]],
      [id |-> "AA01", update |-> [name |-> NoneV, price |-> Some(24990)]],
      [id |-> "zz", update |-> [name |-> NoneV, price |-> Some(24990)]] }

\* ProductFilter query parameters
NoFilter ==
    [category |-> NoneV, brand |-> NoneV, min_price |-> NoneV, max_price |-> NoneV,
     size |-> NoneV, in_stock |-> NoneV, search |-> NoneV,
     sort_by |-> NoneV, sort_order |-> "asc"]

ProductFilterInputs ==
    { NoFilter,
      [NoFilter EXCEPT !.in_stock = Some(FALSE)],
      [NoFilter EXCEPT !.in_stock = Some(TRUE), !.sort_by = Some("created_at")],
      [NoFilter EXCEPT !.in_stock = Some(FALSE), !.search = Some("tee")],
      [NoFilter EXCEPT !.category = Some("apparel"), !.brand = Some("acme"),
                       !.size = Some("XL"), !.min_price = Some(10000),
                       !.max_price = Some(19990)] }

Page(p, z) == [page |-> p, page_size |-> z]

\* list_products calls: every window over the unfiltered catalog, and each
\* filter on a page that holds its whole result
ProductListInputs ==
    {[pagination |-> pn, filters |-> NoFilter] :
        pn \in {Page(1, 1), Page(2, 1), Page(1, 2), Page(2, 2)}}
    \cup {[pagination |-> Page(1, 2), filters |-> f] : f \in ProductFilterInputs}
    \cup {[pagination |-> Page(2, 1), filters |-> [NoFilter EXCEPT !.in_stock = Some(FALSE)]]}

----------------------------------------------------------------------------
(* schemas/pagination.py *)

PaginationSkip(params) == (params.page - 1) * params.page_size

PaginationLimit(params) == params.page_size

\* mutant: integer division without rounding up
PaginationMetaCreateFloor(params, total_items) ==
    LET total_pages ==
            IF total_items > 0 THEN total_items \div params.page_size ELSE 1
    IN  [page |-> params.page,
         page_size |-> params.page_size,
         total_items |-> total_items,
         total_pages |-> total_pages,
         has_previous |-> params.page > 1,
         has_next |-> params.page < total_pages]

PaginationMetaCreate(params, total_items) ==
    LET total_pages ==
            IF total_items > 0
            THEN (total_items + params.page_size - 1) \div params.page_size
            ELSE 1
    IN  [page |-> params.page,
         page_size |-> params.page_size,
         total_items |-> total_items,
         total_pages |-> total_pages,
         has_previous |-> params.page > 1,
         has_next |-> params.page < total_pages]

PaginatedResponseCreate(items, params, total_items) ==
    [items |-> items, meta |-> PaginationMetaCreate(params, total_items)]


----------------------------------------------------------------------------
(* services/product_service.py *)

\* mutant: "if filter_params.in_stock:" in place of "is not None", so that
\* in_stock=false adds no condition
ProductQueryTruthyInStock(f) ==
    [category |-> f.category,
     brand |-> f.brand,
     price_gte |-> f.min_price,
     price_lte |-> f.max_price,
     sizes_size |-> f.size,
     sizes_in_stock |-> (f.in_stock = Some(TRUE)),
     or |-> IF ~IsNone(f.search) THEN [kind |-> "search", term |-> f.search[1]]
            ELSE [kind |-> "none", term |-> ""]]

\* the query_filter dict list_products builds; "or" is the single "$or" key
ProductQuery(f) ==
    [category |-> f.category,
     brand |-> f.brand,
     price_gte |-> f.min_price,
     price_lte |-> f.max_price,
     sizes_size |-> f.size,
     sizes_in_stock |-> (f.in_stock = Some(TRUE)),
     or |-> IF ~IsNone(f.search) THEN [kind |-> "search", term |-> f.search[1]]
            ELSE IF f.in_stock = Some(FALSE) THEN [kind |-> "no_stock", term |-> ""]
            ELSE [kind |-> "none", term |-> ""]]

\* {"$elemMatch": {"stock": {"$gt": 0}}} on the sizes array
ElemMatchStock(sizes) == \E i \in DOMAIN sizes : sizes[i].stock > 0

\* the storage engine's evaluation of the query on one product document
ProductMatches(doc, q) ==
    /\ IsNone(q.category) \/ doc.category = q.category[1]
    /\ IsNone(q.brand) \/ doc.brand = q.brand[1]
    /\ IsNone(q.price_gte) \/ doc.price >= q.price_gte[1]
    /\ IsNone(q.price_lte) \/ doc.price <= q.price_lte[1]
    /\ IsNone(q.sizes_size)
          \/ \E i \in DOMAIN doc.sizes : doc.sizes[i].size = q.sizes_size[1]
    /\ q.sizes_in_stock => ElemMatchStock(doc.sizes)
    /\ CASE q.or.kind = "no_stock" ->
               Len(doc.sizes) = 0 \/ ~ElemMatchStock(doc.sizes)
          [] q.or.kind = "search" ->
               \/ RegexMatchI(doc.name, q.or.term)
               \/ RegexMatchI(doc.description, q.or.term)
               \/ q.or.term \in doc.tags
          [] OTHER -> TRUE

\* the document as the service returns it: "_id" popped into "id"
ProductOut(id) ==
    [products[id] EXCEPT !.created_at = IsoFormat(@), !.updated_at = IsoFormat(@)]
        @@ [id |-> id]

Ok(value) == [code |-> 0, found |-> TRUE, value |-> value]

NotFound == [code |-> 0, found |-> FALSE, value |-> <<>>]

Raised(code, detail) == [code |-> code, found |-> FALSE, value |-> detail]

create_product(product) ==
    /\ clock < MaxClock
    /\ nextProd <= Len(ProductOids)
    /\ LET id == ProductOids[nextProd]
            doc == product @@ [created_at |-> clock, updated_at |-> clock]
       IN  /\ products' = (id :> doc) @@ products
           /\ last' = [op |-> "create_product", req |-> product,
                       res |-> Ok(doc @@ [id |-> id])]
    /\ nextProd' = nextProd + 1
    /\ clock' = clock + 1
    /\ UNCHANGED <<orders, nextOrd, pg, meta, inflight>>

get_product(product_id) ==
    /\ last' = [op |-> "get_product", req |-> [id |-> product_id],
                res |-> IF ~ObjectIdIsValid(product_id) THEN NotFound
                        ELSE IF ObjectId(product_id) \notin DOMAIN products THEN NotFound
                        ELSE Ok(ProductOut(ObjectId(product_id)))]
    /\ UNCHANGED <<store, pg, meta, inflight>>

\* mutant: the document is replaced by the update body, which carries no
\* sizes
ApplyProductUpdateDropsSizes(doc, upd, now) ==
    [doc EXCEPT !.name = Get(upd.name, @),
                !.price = Get(upd.price, @),
                !.sizes = << >>,
                !.updated_at = now]

\* {"$set": update_data} on one document; update_data holds the fields of
\* the body that are not None (the bodies set name and price only)
ApplyProductUpdate(doc, upd, now) ==
    [doc EXCEPT !.name = Get(upd.name, @),
                !.price = Get(upd.price, @),
                !.updated_at = now]

update_product(product_id, product_update) ==
    /\ IF ~ObjectIdIsValid(product_id)
       THEN /\ last' = [op |-> "update_product",
                        req |-> [id |-> product_id, update |-> product_update],
                        res |-> NotFound]
            /\ UNCHANGED <<store, pg, meta, inflight>>
       ELSE LET id == ObjectId(product_id)
            IN  IF id \notin DOMAIN products
                THEN /\ last' = [op |-> "update_product",
                                 req |-> [id |-> product_id, update |-> product_update],
                                 res |-> NotFound]
                     /\ UNCHANGED <<store, pg, meta, inflight>>
                ELSE LET doc == ApplyProductUpdate(products[id], product_update, clock)
                     IN  /\ clock < MaxClock
                         /\ products' = [products EXCEPT ![id] = doc]
                         /\ last' = [op |-> "update_product",
                                     req |-> [id |-> product_id,
                                              update |-> product_update],
                                     res |-> Ok(ProductOut(id)')]
                         /\ clock' = clock + 1
                         /\ UNCHANGED <<orders, nextProd, nextOrd, pg, meta, inflight>>

\* mutant: deleting a product cancels the orders that hold an item of it
delete_product_cancelling(product_id) ==
    /\ IF ObjectIdIsValid(product_id) /\ ObjectId(product_id) \in DOMAIN products
       THEN /\ products' = [id \in DOMAIN products \ {ObjectId(product_id)}
                               |-> products[id]]
            /\ orders' = [id \in DOMAIN orders |->
                  IF \E i \in DOMAIN orders[id].items :
                        orders[id].items[i].product_id = ObjectId(product_id)
                  THEN [orders[id] EXCEPT !.order_status = "cancelled"]
                  ELSE orders[id]]
            /\ last' = [op |-> "delete_product", req |-> [id |-> product_id],
                        res |-> Ok(TRUE)]
       ELSE /\ last' = [op |-> "delete_product", req |-> [id |-> product_id],
                        res |-> Ok(FALSE)]
            /\ UNCHANGED <<products, orders>>
    /\ UNCHANGED <<nextProd, nextOrd, clock, pg, meta, inflight>>

delete_product(product_id) ==
    /\ IF ObjectIdIsValid(product_id) /\ ObjectId(product_id) \in DOMAIN products
       THEN /\ products' = [id \in DOMAIN products \ {ObjectId(product_id)}
                               |-> products[id]]
            /\ last' = [op |-> "delete_product", req |-> [id |-> product_id],
                        res |-> Ok(TRUE)]
       ELSE /\ last' = [op |-> "delete_product", req |-> [id |-> product_id],
                        res |-> Ok(FALSE)]
            /\ UNCHANGED products
    /\ UNCHANGED <<orders, nextProd, nextOrd, clock, pg, meta, inflight>>

\* the ids of the products the query selects, in the order of sort_options:
\* created_at descending by default, created_at in sort_order when sort_by
\* names it (the requests sort by no other field)
ProductCursor(q, f) ==
    LET hit == {id \in DOMAIN products : ProductMatches(products[id], q)}
        key == [id \in hit |-> products[id].created_at]
        desc == IF ~IsNone(f.sort_by) THEN f.sort_order = "desc" ELSE TRUE
    IN  SortBy(hit, key, desc)

list_products(pagination, filter_params) ==
    LET query_filter == ProductQuery(filter_params)
        total_items ==
            Cardinality({id \in DOMAIN products :
                            ProductMatches(products[id], query_filter)})
        cursor == Window(ProductCursor(query_filter, filter_params),
                         PaginationSkip(pagination), PaginationLimit(pagination))
        items == [i \in DOMAIN cursor |-> ProductOut(cursor[i])]
        out == PaginatedResponseCreate(items, pagination, total_items)
    IN  /\ last' = [op |-> "list_products",
                    req |-> [pagination |-> pagination, filters |-> filter_params],
                    res |-> Ok(out)]
        /\ UNCHANGED <<store, pg, meta, inflight>>

----------------------------------------------------------------------------
(* utils/helpers.py *)

\* convert_objectid raises HTTPException(400) on a malformed id
ConvertObjectIdRaises(object_id) == ~ObjectIdIsValid(object_id)

\* mutant: an empty items list passes the validation
ValidateOrderDataAllowsNoItems(data) ==
    IF data.user_id = Absent \/ data.user_id = "" THEN 400
    ELSE IF \E i \in DOMAIN data.items :
                \/ IsNone(data.items[i].product_id)
                \/ IsNone(data.items[i].quantity)
                \/ IsNone(data.items[i].size)
         THEN 400
    ELSE 0

\* ValidationHelper.validate_order_data: 0 when the data pass, else the
\* status of the HTTPException it raises
ValidateOrderData(data) ==
    IF data.user_id = Absent \/ data.user_id = "" THEN 400
    ELSE IF data.items = <<>> THEN 400
    ELSE IF \E i \in DOMAIN data.items :
                \/ IsNone(data.items[i].product_id)
                \/ IsNone(data.items[i].quantity)
                \/ IsNone(data.items[i].size)
         THEN 400
    ELSE 0

----------------------------------------------------------------------------
(* The requests of the order service *)

Item(p, z, n) == [product_id |-> Some(p), size |-> Some(z), quantity |-> Some(n)]

OrderData(u, items, ship, tax, ostatus, pstatus) ==
    [user_id |-> u, items |-> items, shipping_cost |-> ship, tax |-> tax,
     order_status |-> ostatus, payment_status |-> pstatus]

\* order_data dicts: priced from one or two products, with and without
\* shipping_cost / tax / caller-chosen statuses, with unknown, upper-case and
\* malformed product ids, and structurally invalid ones
OrderCreateInputs ==
    { OrderData("u1", <<Item("aa01", "M", 2)>>, NoneV, NoneV, Absent, Absent),
      OrderData("u1", <<Item("aa01", "M", 2), Item("aa01", "XL", 1)>>,
                Some(4996), Some(1232), "shipped", "paid"),
      OrderData("u1", <<Item("aa01", "M", 2), Item("aa02", "XL", 3)>>,
                NoneV, NoneV, "delivered", Absent),
      OrderData("u2", <<Item("aa02", "XL", 3)>>, Some(5000), NoneV, Absent, Absent),
      OrderData("u1", <<Item("aa01", "M", 2), Item("aa09", "M", 1), Item("zz", "M", 1)>>,
                NoneV, NoneV, Absent, Absent),
      OrderData("u1", <<Item("AA01", "M", 1)>>, NoneV, NoneV, Absent, Absent),
      OrderData("", <<Item("aa01", "M", 2)>>, NoneV, NoneV, Absent, Absent),
      OrderData("u1", << >>, NoneV, NoneV, Absent, Absent),
      OrderData("u1", <<[product_id |-> Some("aa01"), size |-> NoneV,
                         quantity |-> Some(1)]>>, NoneV, NoneV, Absent, Absent),
      OrderData("u1", <<Item("zz", "M", 1), Item("aa01", "XL", 1)>>,
                NoneV, NoneV, Absent, Absent) }

\* order_data dicts whose items carry a quantity that is not positive
\* (the service is handed a dict; OrderItemBase.quantity is checked by the
\* route's schema only)
NonPositiveQuantityInputs ==
    { OrderData("u2", <<Item("aa01", "XL", 0)>>, NoneV, NoneV, Absent, Absent),
      OrderData("u2", <<Item("aa01", "M", 1), Item("aa02", "M", -1)>>,
                NoneV, NoneV, Absent, Absent) }

\* order_data dicts in which the client names its own prices: an item with
\* product_name, price and subtotal, and an order with subtotal and total
ClientPricedInputs ==
    { [user_id |-> "u1",
       items |-> << [product_id |-> Some("aa01"), size |-> Some("M"),
                     quantity |-> Some(2), product_name |-> "Free",
                     price |-> 10, subtotal |-> 20] >>,
       shipping_cost |-> NoneV, tax |-> NoneV,
       order_status |-> Absent, payment_status |-> Absent,
       subtotal |-> 20, total |-> 20],
      [user_id |-> "u1",
       items |-> << Item("aa01", "M", 2),
                    [product_id |-> Some("aa02"), size |-> Some("XL"),
                     quantity |-> Some(3), price |-> 0, subtotal |-> 0] >>,
       shipping_cost |-> NoneV, tax |-> NoneV,
       order_status |-> "delivered", payment_status |-> Absent,
       total |-> 39980] }

\* (order id, status) pairs: the five statuses and a foreign one
StatusInputs ==
    {[id |-> "0d01", status |-> st] :
        st \in {"pending", "processing", "shipped", "delivered", "cancelled",
                "refunded"}}
    \cup { [id |-> "0d02", status |-> "shipped"],
           [id |-> "0D01", status |-> "processing"],
           [id |-> "zz", status |-> "shipped"] }

NoOrderFilter ==
    [user_id |-> NoneV, order_status |-> NoneV, payment_status |-> NoneV,
     min_total |-> NoneV, max_total |-> NoneV]

OrderFilterInputs ==
    { NoOrderFilter,
      [NoOrderFilter EXCEPT !.order_status = Some("pending")],
      [NoOrderFilter EXCEPT !.user_id = Some("u1"), !.payment_status = Some("pending")],
      [NoOrderFilter EXCEPT !.min_total = Some(0), !.max_total = Some(100000)] }

\* min_total = max_total = the total of an order of two Tees
ExactTotalFilter ==
    [NoOrderFilter EXCEPT !.min_total = Some(39980), !.max_total = Some(39980)]

OrderListInputs ==
    {[pagination |-> pn, filters |-> NoOrderFilter] :
        pn \in {Page(1, 1), Page(2, 1), Page(1, 2)}}
    \cup {[pagination |-> Page(1, 2), filters |-> f] : f \in OrderFilterInputs}

----------------------------------------------------------------------------
(* services/product_service.py: check_products_exist *)

\* mutant: "break" in place of "continue", so that the ids after the first
\* malformed one never reach the query
RECURSIVE ValidObjectIdsUntilInvalid(_)
ValidObjectIdsUntilInvalid(product_ids) ==
    IF product_ids = <<>> THEN {}
    ELSE IF ~ObjectIdIsValid(Head(product_ids)) THEN {}
    ELSE {ObjectId(Head(product_ids))}
            \cup ValidObjectIdsUntilInvalid(Tail(product_ids))

\* valid_object_ids: the ids that ObjectId() accepts, converted
ValidObjectIds(product_ids) ==
    {ObjectId(product_ids[i]) : i \in {j \in DOMAIN product_ids :
                                          ObjectIdIsValid(product_ids[j])}}

\* mutant: stops at the first missing id
RECURSIVE MissingIdsFirstOnly(_, _)
MissingIdsFirstOnly(product_ids, found_ids) ==
    IF product_ids = <<>> THEN <<>>
    ELSE IF Head(product_ids) \notin found_ids THEN <<Head(product_ids)>>
    ELSE MissingIdsFirstOnly(Tail(product_ids), found_ids)

\* [pid for pid in product_ids if pid not in found_ids]
RECURSIVE MissingIds(_, _)
MissingIds(product_ids, found_ids) ==
    IF product_ids = <<>> THEN <<>>
    ELSE IF Head(product_ids) \notin found_ids
         THEN <<Head(product_ids)>> \o MissingIds(Tail(product_ids), found_ids)
         ELSE MissingIds(Tail(product_ids), found_ids)

\* (found_products, missing_ids); found_products as the map _id -> document
CheckProductsExist(product_ids) ==
    LET valid_object_ids == ValidObjectIds(product_ids)
        found == {id \in DOMAIN products : id \in valid_object_ids}
        found_ids == found
    IN  [found_products |-> [id \in found |-> products[id]],
         missing_ids |-> MissingIds(product_ids, found_ids)]

----------------------------------------------------------------------------
(* models/order_v2.py: order_helper *)

\* mutant: the name and the price are read from the catalog when the order
\* is read
OrderItemOutLive(item) ==
    LET named == IF item.product_id \in DOMAIN products
                 THEN [f \in (DOMAIN item) \cup {"product_name", "price"} |->
                          IF f = "product_name" THEN products[item.product_id].name
                          ELSE IF f = "price" THEN products[item.product_id].price
                          ELSE item[f]]
                 ELSE IF "product_name" \in DOMAIN item THEN item
                 ELSE item @@ [product_name |-> "Unknown Product"]
        priced == IF "price" \in DOMAIN named THEN named
                  ELSE named @@ [price |-> 0]
    IN  IF "subtotal" \in DOMAIN priced THEN priced
        ELSE priced @@ [subtotal |-> Round2(priced.quantity * priced.price)]

OrderItemOut(item) ==
    LET named == IF "product_name" \in DOMAIN item THEN item
                 ELSE item @@ [product_name |-> "Unknown Product"]
        priced == IF "price" \in DOMAIN named THEN named
                  ELSE named @@ [price |-> 0]
    IN  IF "subtotal" \in DOMAIN priced THEN priced
        ELSE priced @@ [subtotal |-> Round2(priced.quantity * priced.price)]

OrderHelperStatus(order_doc) ==
    IF "order_status" \in DOMAIN order_doc THEN order_doc.order_status
    ELSE IF "status" \in DOMAIN order_doc THEN order_doc.status
    ELSE "pending"

order_helper(id, order_doc) ==
    [id |-> id,
     user_id |-> order_doc.user_id,
     items |-> [i \in DOMAIN order_doc.items |-> OrderItemOut(order_doc.items[i])],
     order_status |-> OrderHelperStatus(order_doc),
     payment_status |-> IF "payment_status" \in DOMAIN order_doc
                        THEN order_doc.payment_status ELSE "pending",
     subtotal |-> order_doc.subtotal,
     shipping_cost |-> order_doc.shipping_cost,
     tax |-> order_doc.tax,
     total |-> IF "total" \in DOMAIN order_doc THEN order_doc.total
               ELSE IF "total_amount" \in DOMAIN order_doc THEN order_doc.total_amount
               ELSE 0,
     created_at |-> IsoFormat(order_doc.created_at),
     updated_at |-> IF IsNone(order_doc.updated_at) THEN NoneV
                    ELSE Some(IsoFormat(order_doc.updated_at[1]))]

----------------------------------------------------------------------------
(* services/order_service.py *)

\* mutant: an item is priced only when the product has the size with
\* enough stock
EnrichItemIfInStock(item, product_map) ==
    LET base == [product_id |-> item.product_id[1], size |-> item.size[1],
                 quantity |-> item.quantity[1]]
    IN  IF /\ base.product_id \in DOMAIN product_map
           /\ \E k \in DOMAIN product_map[base.product_id].sizes :
                 /\ product_map[base.product_id].sizes[k].size = base.size
                 /\ product_map[base.product_id].sizes[k].stock >= base.quantity
        THEN LET product == product_map[base.product_id]
             IN  base @@ [product_name |-> product.name,
                          price |-> product.price,
                          subtotal |-> Round2(product.price * base.quantity)]
        ELSE base

\* mutant: the name, price and subtotal an item already carries are kept,
\* and the catalog fills in only the keys the client left out
EnrichItemTrustsClient(item, product_map) ==
    LET supplied == [f \in DOMAIN item |->
                        IF f \in {"product_id", "size", "quantity"} THEN item[f][1]
                        ELSE item[f]]
    IN  IF supplied.product_id \in DOMAIN product_map
        THEN LET product == product_map[supplied.product_id]
             IN  supplied @@ [product_name |-> product.name,
                              price |-> product.price,
                              subtotal |-> Round2(product.price * supplied.quantity)]
        ELSE supplied

\* one pass of the enrichment loop over a validated item: the item dict as
\* the client sent it, any product_name, price and subtotal of its own
\* included, with the three keys assigned from the product when the map
\* has it
EnrichItem(item, product_map) ==
    LET supplied == [f \in DOMAIN item |->
                        IF f \in {"product_id", "size", "quantity"} THEN item[f][1]
                        ELSE item[f]]
    IN  IF supplied.product_id \in DOMAIN product_map
        THEN LET product == product_map[supplied.product_id]
             IN  [product_name |-> product.name,
                  price |-> product.price,
                  subtotal |-> Round2(product.price * supplied.quantity)] @@ supplied
        ELSE supplied

\* subtotal += item["subtotal"], inside "if product:", over the items the
\* loop enriched
RECURSIVE AccumulateSubtotal(_, _)
AccumulateSubtotal(items, product_map) ==
    IF items = <<>> THEN 0
    ELSE (IF Head(items).product_id \in DOMAIN product_map
             /\ "subtotal" \in DOMAIN Head(items)
          THEN Head(items).subtotal ELSE 0)
         + AccumulateSubtotal(Tail(items), product_map)

\* mutant: the total leaves the tax out
PricedOrderNoTax(validated_data, product_map, now) ==
    LET items == [i \in DOMAIN validated_data.items |->
                     EnrichItem(validated_data.items[i], product_map)]
        subtotal == AccumulateSubtotal(items, product_map)
        shipping_cost == Get(validated_data.shipping_cost, 0)
        tax == Get(validated_data.tax, 0)
    IN  [user_id |-> validated_data.user_id,
         items |-> items,
         subtotal |-> subtotal,
         shipping_cost |-> shipping_cost,
         tax |-> tax,
         total |-> Round2(subtotal + shipping_cost),
         order_status |-> "pending",
         payment_status |-> "pending",
         created_at |-> now,
         updated_at |-> NoneV]

\* mutant: the statuses of the request survive when it carries them
PricedOrderKeepsStatus(validated_data, product_map, now) ==
    LET items == [i \in DOMAIN validated_data.items |->
                     EnrichItem(validated_data.items[i], product_map)]
        subtotal == AccumulateSubtotal(items, product_map)
        shipping_cost == Get(validated_data.shipping_cost, 0)
        tax == Get(validated_data.tax, 0)
    IN  [user_id |-> validated_data.user_id,
         items |-> items,
         subtotal |-> subtotal,
         shipping_cost |-> shipping_cost,
         tax |-> tax,
         total |-> Round2(subtotal + shipping_cost + tax),
         order_status |-> IF validated_data.order_status = Absent THEN "pending"
                          ELSE validated_data.order_status,
         payment_status |-> IF validated_data.payment_status = Absent THEN "pending"
                            ELSE validated_data.payment_status,
         created_at |-> now,
         updated_at |-> NoneV]

\* the document create_order hands to insert_one
PricedOrder(validated_data, product_map, now) ==
    LET items == [i \in DOMAIN validated_data.items |->
                     EnrichItem(validated_data.items[i], product_map)]
        subtotal == AccumulateSubtotal(items, product_map)
        shipping_cost == Get(validated_data.shipping_cost, 0)
        tax == Get(validated_data.tax, 0)
    IN  [user_id |-> validated_data.user_id,
         items |-> items,
         subtotal |-> subtotal,
         shipping_cost |-> shipping_cost,
         tax |-> tax,
         total |-> Round2(subtotal + shipping_cost + tax),
         order_status |-> "pending",
         payment_status |-> "pending",
         created_at |-> now,
         updated_at |-> NoneV]

\* "except HTTPException: raise" ahead of "except Exception": an
\* HTTPException raised inside create_order leaves with its own status
Reraise(code) == code

create_order(order_data) ==
    LET invalid == ValidateOrderData(order_data)
        product_ids == [i \in DOMAIN order_data.items |->
                           order_data.items[i].product_id[1]]
        checked == CheckProductsExist(product_ids)
    IN  IF invalid # 0
        THEN /\ last' = [op |-> "create_order", req |-> order_data,
                         res |-> Raised(Reraise(invalid), <<>>)]
             /\ UNCHANGED <<store, pg, meta, inflight>>
        ELSE IF checked.missing_ids # <<>>
        THEN /\ last' = [op |-> "create_order", req |-> order_data,
                         res |-> Raised(Reraise(404), checked.missing_ids)]
             /\ UNCHANGED <<store, pg, meta, inflight>>
        ELSE /\ clock < MaxClock
             /\ nextOrd <= Len(OrderOids)
             /\ LET id == OrderOids[nextOrd]
                    doc == PricedOrder(order_data, checked.found_products, clock)
                IN  /\ orders' = (id :> doc) @@ orders
                    /\ last' = [op |-> "create_order", req |-> order_data,
                                res |-> Ok(order_helper(id, doc))]
             /\ nextOrd' = nextOrd + 1
             /\ clock' = clock + 1
             /\ UNCHANGED <<products, nextProd, pg, meta, inflight>>

\* "except Exception" around a service body: whatever was raised inside,
\* an HTTPException included, leaves as HTTPException(500)
CatchAll(code) == IF code = 0 THEN 0 ELSE 500

\* what get_order_by_id returns or raises on the current collection
GetOrderById(order_id) ==
    LET raised == IF ConvertObjectIdRaises(order_id) THEN 400 ELSE 0
    IN  IF raised # 0 THEN Raised(CatchAll(raised), <<>>)
        ELSE IF ObjectId(order_id) \notin DOMAIN orders THEN NotFound
        ELSE Ok(order_helper(ObjectId(order_id), orders[ObjectId(order_id)]))

get_order_by_id(order_id) ==
    /\ last' = [op |-> "get_order_by_id", req |-> [id |-> order_id],
                res |-> GetOrderById(order_id)]
    /\ UNCHANGED <<store, pg, meta, inflight>>

\* mutant: a payment status slipped into valid_statuses
ValidStatusesWithRefunded ==
    {"pending", "processing", "shipped", "delivered", "cancelled", "refunded"}

ValidStatuses == {"pending", "processing", "shipped", "delivered", "cancelled"}

\* models/order_v2.py, Order.update_status: the update_data it would $set.
\* No route or service calls this method; "if payment_status:" leaves the
\* key out for None and for the empty string
OrderUpdateStatusData(order_status, payment_status, now) ==
    IF IsNone(payment_status) \/ payment_status = Some("")
    THEN [order_status |-> order_status, updated_at |-> Some(now)]
    ELSE [order_status |-> order_status, updated_at |-> Some(now),
          payment_status |-> payment_status[1]]

\* mutant: a cancellation also marks the payment refunded
SetOrderStatusRefunds(order_doc, status, now) ==
    [f \in (DOMAIN order_doc) \cup {"status"} |->
        IF f = "status" THEN status
        ELSE IF f = "updated_at" THEN Some(now)
        ELSE IF f = "payment_status" /\ status = "cancelled" THEN "refunded"
        ELSE order_doc[f]]

\* {"$set": {"status": status, "updated_at": now}} on one document
SetOrderStatus(order_doc, status, now) ==
    [f \in (DOMAIN order_doc) \cup {"status"} |->
        IF f = "status" THEN status
        ELSE IF f = "updated_at" THEN Some(now)
        ELSE order_doc[f]]

\* datetime.utcnow() as the update stores it (BSON keeps milliseconds): a
\* fresh instant, or the instant of the order's last update when the two
\* calls fall within the same millisecond
UtcNow(order_doc) ==
    {clock} \cup (IF IsNone(order_doc.updated_at) THEN {}
                  ELSE {order_doc.updated_at[1]})

\* the body of update_order_status; delete_order calls it with "cancelled".
\* It returns result.modified_count > 0: an update that leaves the document
\* as it was modifies nothing
UpdateOrderStatus(opname, order_id, status) ==
    LET raised == IF ConvertObjectIdRaises(order_id) THEN 400
                  ELSE IF status \notin ValidStatuses THEN 400
                  ELSE 0
    IN
    IF raised # 0
    THEN /\ last' = [op |-> opname, req |-> [id |-> order_id, status |-> status],
                     res |-> Raised(CatchAll(raised), <<>>)]
         /\ UNCHANGED <<store, pg, meta, inflight>>
    ELSE IF ObjectId(order_id) \notin DOMAIN orders
    THEN /\ last' = [op |-> opname, req |-> [id |-> order_id, status |-> status],
                     res |-> Ok(FALSE)]
         /\ UNCHANGED <<store, pg, meta, inflight>>
    ELSE \E now \in UtcNow(orders[ObjectId(order_id)]) :
            LET updated == SetOrderStatus(orders[ObjectId(order_id)], status, now)
                modified_count == IF updated = orders[ObjectId(order_id)] THEN 0 ELSE 1
            IN  /\ now = clock => clock < MaxClock
                /\ orders' = [orders EXCEPT ![ObjectId(order_id)] = updated]
                /\ last' = [op |-> opname,
                            req |-> [id |-> order_id, status |-> status],
                            res |-> Ok(modified_count > 0)]
                /\ clock' = IF now = clock THEN clock + 1 ELSE clock
                /\ UNCHANGED <<products, nextProd, nextOrd, pg, meta, inflight>>

update_order_status(order_id, status) ==
    UpdateOrderStatus("update_order_status", order_id, status)

\* the sizes of a product after the quantities of the items naming it are
\* put back
Restocked(pid, sizes, items) ==
    [k \in DOMAIN sizes |->
        [sizes[k] EXCEPT !.stock = @ + SumSeq([i \in DOMAIN items |->
            IF items[i].product_id = pid /\ items[i].size = sizes[k].size
            THEN items[i].quantity ELSE 0])]]

\* mutant: cancelling puts the stock of the order's items back
delete_order_restocking(order_id) ==
    IF ObjectIdIsValid(order_id) /\ ObjectId(order_id) \in DOMAIN orders
       /\ clock < MaxClock
    THEN LET doc == orders[ObjectId(order_id)]
         IN  /\ orders' = [orders EXCEPT ![ObjectId(order_id)] =
                                             SetOrderStatus(doc, "cancelled", clock)]
             /\ products' = [pid \in DOMAIN products |->
                                [products[pid] EXCEPT
                                    !.sizes = Restocked(pid, @, doc.items)]]
             /\ last' = [op |-> "delete_order",
                         req |-> [id |-> order_id, status |-> "cancelled"],
                         res |-> Ok(TRUE)]
             /\ clock' = clock + 1
             /\ UNCHANGED <<nextProd, nextOrd, pg, meta, inflight>>
    ELSE UpdateOrderStatus("delete_order", order_id, "cancelled")

delete_order(order_id) ==
    UpdateOrderStatus("delete_order", order_id, "cancelled")

\* the query dict list_orders builds
OrderQuery(filters) ==
    [user_id |-> filters.user_id,
     status |-> filters.order_status,
     payment_status |-> filters.payment_status,
     total_amount_gte |-> filters.min_total,
     total_amount_lte |-> filters.max_total]

\* the storage engine's evaluation of the query on one order document: a
\* condition on a field the document lacks selects nothing
OrderMatches(doc, q) ==
    /\ IsNone(q.user_id) \/ doc.user_id = q.user_id[1]
    /\ IsNone(q.status) \/ ("status" \in DOMAIN doc /\ doc.status = q.status[1])
    /\ IsNone(q.payment_status) \/ doc.payment_status = q.payment_status[1]
    /\ IsNone(q.total_amount_gte)
          \/ ("total_amount" \in DOMAIN doc /\ doc.total_amount >= q.total_amount_gte[1])
    /\ IsNone(q.total_amount_lte)
          \/ ("total_amount" \in DOMAIN doc /\ doc.total_amount <= q.total_amount_lte[1])

\* find(query).sort("created_at", -1)
OrderCursor(q) ==
    LET hit == {id \in DOMAIN orders : OrderMatches(orders[id], q)}
    IN  SortBy(hit, [id \in hit |-> orders[id].created_at], TRUE)

list_orders(pagination, filters) ==
    LET query == OrderQuery(filters)
        total_items ==
            Cardinality({id \in DOMAIN orders : OrderMatches(orders[id], query)})
        cursor == Window(OrderCursor(query),
                         PaginationSkip(pagination), PaginationLimit(pagination))
        items == [i \in DOMAIN cursor |-> order_helper(cursor[i], orders[cursor[i]])]
        out == PaginatedResponseCreate(items, pagination, total_items)
    IN  /\ last' = [op |-> "list_orders",
                    req |-> [pagination |-> pagination, filters |-> filters],
                    res |-> Ok(out)]
        /\ UNCHANGED <<store, pg, meta, inflight>>

----------------------------------------------------------------------------
(* The system: any service call, in any order *)

\* The catalogs the service may be started on: what k create_product calls,
\* made before time 1, leave in db.products
SeedCatalog(inputs) ==
    [i \in DOMAIN inputs |->
        inputs[i] @@ [created_at |-> i - Len(inputs), updated_at |-> i - Len(inputs)]]

SeedInputs ==
    LET tee == CHOOSE t \in ProductCreateInputs : t.name = "Tee"
        cap == CHOOSE t \in ProductCreateInputs : t.name = "Cap"
        sock == CHOOSE t \in ProductCreateInputs : t.name = "Sock"
    IN  { << >>, <<tee, cap, sock>> }

Init ==
    /\ \E inputs \in SeedInputs :
          /\ products = [id \in {ProductOids[i] : i \in DOMAIN inputs} |->
                            SeedCatalog(inputs)[CHOOSE i \in DOMAIN inputs :
                                                    ProductOids[i] = id]]
          /\ nextProd = Len(inputs) + 1
    /\ orders = << >>
    /\ nextOrd = 1
    /\ clock = 1
    /\ last = [op |-> "init", req |-> <<>>, res |-> NotFound]
    /\ pg = [page |-> 1, page_size |-> 1, total_items |-> 0]
    /\ meta = NoneV
    /\ inflight = NoneV

Next ==
    \/ \E product \in ProductCreateInputs : create_product(product)
    \/ \E product_id \in ProductIdInputs : get_product(product_id)
    \/ \E r \in ProductUpdateInputs : update_product(r.id, r.update)
    \/ \E product_id \in ProductDeleteInputs : delete_product(product_id)
    \/ \E r \in ProductListInputs : list_products(r.pagination, r.filters)
    \/ \E order_data \in OrderCreateInputs : create_order(order_data)
    \/ \E order_id \in OrderIdInputs : get_order_by_id(order_id)
    \/ \E r \in StatusInputs : update_order_status(r.id, r.status)
    \/ \E order_id \in OrderIdInputs : delete_order(order_id)
    \/ \E r \in OrderListInputs : list_orders(r.pagination, r.filters)

Spec == Init /\ [][Next]_vars

----------------------------------------------------------------------------
(* routes/order.py: PATCH /orders/{order_id} *)

\* OrderUpdate bodies: the fields the schema declares
OrderUpdateInputs ==
    { [order_status |-> Some("shipped"), payment_status |-> NoneV],
      [order_status |-> Some("cancelled"), payment_status |-> NoneV],
      [order_status |-> NoneV, payment_status |-> Some("paid")] }

\* The route rejects a malformed id with 400, then reads order_update.status
\* to call the service.  OrderUpdate declares order_status, not status: the
\* read raises AttributeError, which nothing catches, and the request ends
\* as a 500 before the service is called.
route_update_order_status(order_id, order_update) ==
    LET raised == IF ~ObjectIdIsValid(order_id) THEN 400
                  ELSE IF "status" \notin DOMAIN order_update THEN 500
                  ELSE 0
    IN  /\ raised # 0
        /\ last' = [op |-> "route_update_order_status",
                    req |-> [id |-> order_id, update |-> order_update],
                    res |-> Raised(raised, <<>>)]
        /\ UNCHANGED <<store, pg, meta, inflight>>

----------------------------------------------------------------------------
(* The order service and its PATCH route on a stored catalog, with the     *)
(* order requests the schema of the route would turn away and a total      *)
(* filter that names one order's total                                     *)

InitOrders ==
    /\ Init
    /\ products # << >>

NextOrders ==
    \/ \E order_data \in OrderCreateInputs \cup NonPositiveQuantityInputs :
          create_order(order_data)
    \/ \E order_id \in OrderIdInputs : get_order_by_id(order_id)
    \/ \E r \in StatusInputs : update_order_status(r.id, r.status)
    \/ \E order_id \in OrderIdInputs : delete_order(order_id)
    \/ \E r \in OrderListInputs
                 \cup {[pagination |-> Page(1, 2), filters |-> ExactTotalFilter]} :
          list_orders(r.pagination, r.filters)
    \/ \E order_id \in OrderIdInputs, order_update \in OrderUpdateInputs :
          route_update_order_status(order_id, order_update)

SpecOrders == InitOrders /\ [][NextOrders]_vars

----------------------------------------------------------------------------
(* The writing operations of the two services on their own: the calls that *)
(* can change db.products or the orders collection                         *)

NextWrites ==
    \/ \E product \in ProductCreateInputs : create_product(product)
    \/ \E r \in ProductUpdateInputs : update_product(r.id, r.update)
    \/ \E product_id \in ProductDeleteInputs : delete_product(product_id)
    \/ \E order_data \in OrderCreateInputs \cup ClientPricedInputs :
          create_order(order_data)
    \/ \E r \in StatusInputs : update_order_status(r.id, r.status)
    \/ \E order_id \in OrderIdInputs : delete_order(order_id)

SpecWrites == Init /\ [][NextWrites]_vars

----------------------------------------------------------------------------
(* Storage failures: a call on the collection raises a driver error        *)

\* the status of an exception that is not an HTTPException: the driver's
\* PyMongoError carries no status code
PyMongoError == -1

\* the calls of the order service that reach the storage engine, by method
OrderStorageCalls ==
    {[op |-> "create_order", req |-> d] :
        d \in {x \in OrderCreateInputs : ValidateOrderData(x) = 0}}
    \cup {[op |-> "get_order_by_id", req |-> [id |-> i]] :
              i \in {x \in OrderIdInputs : ObjectIdIsValid(x)}}
    \cup {[op |-> "update_order_status", req |-> r] :
              r \in {x \in StatusInputs :
                         ObjectIdIsValid(x.id) /\ x.status \in ValidStatuses}}
    \cup {[op |-> "list_orders",
           req |-> [pagination |-> Page(1, 2), filters |-> NoOrderFilter]]}

\* the calls of the product service that reach the storage engine
ProductStorageCalls ==
    {[op |-> "create_product", req |-> d] : d \in ProductCreateInputs}
    \cup {[op |-> "get_product", req |-> [id |-> i]] :
              i \in {x \in ProductIdInputs : ObjectIdIsValid(x)}}
    \cup {[op |-> "update_product", req |-> r] :
              r \in {x \in ProductUpdateInputs : ObjectIdIsValid(x.id)}}
    \cup {[op |-> "delete_product", req |-> [id |-> i]] :
              i \in {x \in ProductDeleteInputs : ObjectIdIsValid(x)}}
    \cup {[op |-> "list_products",
           req |-> [pagination |-> Page(1, 2), filters |-> NoFilter]]}
    \cup {[op |-> "check_products_exist", req |-> <<"aa01", "aa02">>]}

\* A method of OrderService whose first storage call raises (for
\* create_order, the find of check_products_exist): the method's
\* "except Exception" logs and raises HTTPException(500, "Internal server
\* error").  Nothing was written, and the call is not made again.
order_storage_failure(call) ==
    /\ last' = [op |-> call.op,
                req |-> [call |-> call.req, storage_raises |-> TRUE],
                res |-> Raised(CatchAll(PyMongoError), <<"Internal server error">>)]
    /\ UNCHANGED <<store, pg, meta, inflight>>

\* A method of ProductService whose first storage call raises: the methods
\* have no try block, and the driver's error leaves the method as it is
product_storage_failure(call) ==
    /\ last' = [op |-> call.op,
                req |-> [call |-> call.req, storage_raises |-> TRUE],
                res |-> Raised(PyMongoError, <<"PyMongoError">>)]
    /\ UNCHANGED <<store, pg, meta, inflight>>

NextFaults ==
    \/ \E product \in ProductCreateInputs : create_product(product)
    \/ \E product_id \in ProductDeleteInputs : delete_product(product_id)
    \/ \E order_data \in OrderCreateInputs : create_order(order_data)
    \/ \E order_id \in OrderIdInputs : delete_order(order_id)
    \/ \E call \in OrderStorageCalls : order_storage_failure(call)
    \/ \E call \in ProductStorageCalls : product_storage_failure(call)

SpecFaults == Init /\ [][NextFaults]_vars

----------------------------------------------------------------------------
(* create_order as the event loop runs it: the coroutine yields at the      *)
(* await of check_products_exist and at the await of insert_one, and the    *)
(* calls of other requests run in between                                   *)

\* first storage step: the validation and the batch lookup.  A request that
\* fails either ends here; one that passes waits for its insert with the
\* products the find returned
create_order_lookup(order_data) ==
    LET invalid == ValidateOrderData(order_data)
        product_ids == [i \in DOMAIN order_data.items |->
                           order_data.items[i].product_id[1]]
        checked == CheckProductsExist(product_ids)
    IN  /\ inflight = NoneV
        /\ IF invalid # 0
           THEN /\ last' = [op |-> "create_order", req |-> order_data,
                            res |-> Raised(Reraise(invalid), <<>>)]
                /\ UNCHANGED inflight
           ELSE IF checked.missing_ids # <<>>
           THEN /\ last' = [op |-> "create_order", req |-> order_data,
                            res |-> Raised(Reraise(404), checked.missing_ids)]
                /\ UNCHANGED inflight
           ELSE /\ inflight' = Some([op |-> "create_order",
                                     order_data |-> order_data,
                                     existing_products |-> checked.found_products])
                /\ UNCHANGED last
        /\ UNCHANGED <<store, pg, meta>>

\* mutant: the items are priced from the catalog as it is when the order
\* is inserted
InsertedOrderRereading(call, now) ==
    PricedOrder(call.order_data,
                [id \in (DOMAIN call.existing_products) \cap (DOMAIN products) |->
                    products[id]],
                now)

\* the document handed to insert_one: priced from existing_products, the
\* result of the lookup, whatever the catalog holds by now
InsertedOrder(call, now) ==
    PricedOrder(call.order_data, call.existing_products, now)

\* second storage step: the enrichment from the products looked up, the
\* insert, and the read of the inserted document for the response (no
\* product operation writes to the orders collection in between)
create_order_insert ==
    /\ inflight # NoneV
    /\ inflight[1].op = "create_order"
    /\ clock < MaxClock
    /\ nextOrd <= Len(OrderOids)
    /\ LET id == OrderOids[nextOrd]
           doc == InsertedOrder(inflight[1], clock)
       IN  /\ orders' = (id :> doc) @@ orders
           /\ last' = [op |-> "create_order", req |-> inflight[1].order_data,
                       res |-> Ok(order_helper(id, doc))]
    /\ nextOrd' = nextOrd + 1
    /\ clock' = clock + 1
    /\ inflight' = NoneV
    /\ UNCHANGED <<products, nextProd, pg, meta>>

\* a product operation of another request; it runs whether or not an order
\* is between its two steps
NextCreateRace ==
    \/ \E order_data \in OrderCreateInputs : create_order_lookup(order_data)
    \/ create_order_insert
    \/ \E r \in ProductUpdateInputs : update_product(r.id, r.update)
    \/ \E product_id \in ProductDeleteInputs : delete_product(product_id)

SpecCreateRace == InitOrders /\ [][NextCreateRace]_vars

----------------------------------------------------------------------------
(* list_products and list_orders as the event loop runs them: the coroutine *)
(* yields at the await of count_documents and again when the cursor is      *)
(* read, and the calls of other requests run in between                     *)

\* first storage step of list_products: count_documents(query_filter)
list_products_count(pagination, filter_params) ==
    LET query_filter == ProductQuery(filter_params)
    IN  /\ inflight = NoneV
        /\ inflight' = Some([op |-> "list_products",
                             pagination |-> pagination,
                             filters |-> filter_params,
                             total_items |->
                                 Cardinality({id \in DOMAIN products :
                                     ProductMatches(products[id], query_filter)})])
        /\ UNCHANGED <<store, last, pg, meta>>

\* second storage step of list_products: the find, read to its end, and
\* the response built with the total_items counted before
list_products_find ==
    /\ inflight # NoneV
    /\ inflight[1].op = "list_products"
    /\ LET call == inflight[1]
           query_filter == ProductQuery(call.filters)
           cursor == Window(ProductCursor(query_filter, call.filters),
                            PaginationSkip(call.pagination),
                            PaginationLimit(call.pagination))
           items == [i \in DOMAIN cursor |-> ProductOut(cursor[i])]
       IN  last' = [op |-> "list_products",
                    req |-> [pagination |-> call.pagination, filters |-> call.filters],
                    res |-> Ok(PaginatedResponseCreate(items, call.pagination,
                                                       call.total_items))]
    /\ inflight' = NoneV
    /\ UNCHANGED <<store, pg, meta>>

\* first storage step of list_orders: count_documents(query)
list_orders_count(pagination, filters) ==
    LET query == OrderQuery(filters)
    IN  /\ inflight = NoneV
        /\ inflight' = Some([op |-> "list_orders",
                             pagination |-> pagination,
                             filters |-> filters,
                             total_items |->
                                 Cardinality({id \in DOMAIN orders :
                                     OrderMatches(orders[id], query)})])
        /\ UNCHANGED <<store, last, pg, meta>>

\* second storage step of list_orders: the find, read to its end, and the
\* response built with the total_items counted before
list_orders_find ==
    /\ inflight # NoneV
    /\ inflight[1].op = "list_orders"
    /\ LET call == inflight[1]
           cursor == Window(OrderCursor(OrderQuery(call.filters)),
                            PaginationSkip(call.pagination),
                            PaginationLimit(call.pagination))
           items == [i \in DOMAIN cursor |-> order_helper(cursor[i], orders[cursor[i]])]
       IN  last' = [op |-> "list_orders",
                    req |-> [pagination |-> call.pagination, filters |-> call.filters],
                    res |-> Ok(PaginatedResponseCreate(items, call.pagination,
                                                       call.total_items))]
    /\ inflight' = NoneV
    /\ UNCHANGED <<store, pg, meta>>

\* the unfiltered listings, with the creations and deletions of other
\* requests
NextListRace ==
    \/ \E r \in {x \in ProductListInputs : x.filters = NoFilter} :
          list_products_count(r.pagination, r.filters)
    \/ list_products_find
    \/ \E r \in {x \in OrderListInputs : x.filters = NoOrderFilter} :
          list_orders_count(r.pagination, r.filters)
    \/ list_orders_find
    \/ \E product \in ProductCreateInputs : create_product(product)
    \/ \E product_id \in ProductDeleteInputs : delete_product(product_id)
    \/ \E order_data \in OrderCreateInputs : create_order(order_data)

SpecListRace == Init /\ [][NextListRace]_vars

----------------------------------------------------------------------------
(* utils/pagination.py: the second metadata builder *)

PaginatorInit(page, page_size) ==
    [page |-> IF page > 1 THEN page ELSE 1,
     page_size |-> IF page_size < 1 THEN 1
                   ELSE IF page_size > PageSizeLimit THEN PageSizeLimit
                   ELSE page_size]

\* math.ceil(a / b) for a >= 0, b > 0
Ceil(a, b) == 0 - ((0 - a) \div b)

PaginatorGetPaginationMetadata(self, total_items) ==
    LET total_pages == IF total_items > 0 THEN Ceil(total_items, self.page_size) ELSE 0
    IN  [page |-> self.page,
         page_size |-> self.page_size,
         total_items |-> total_items,
         total_pages |-> total_pages,
         has_previous |-> self.page > 1,
         has_next |-> self.page < total_pages]

----------------------------------------------------------------------------
(* The metadata builders on their own: any PaginationParams the schema     *)
(* admits (page >= 1, 1 <= page_size <= 100) and any count                 *)

InitMeta ==
    /\ products = << >>
    /\ orders = << >>
    /\ nextProd = 1
    /\ nextOrd = 1
    /\ clock = 1
    /\ last = [op |-> "init", req |-> <<>>, res |-> NotFound]
    /\ pg \in {[page |-> p, page_size |-> z, total_items |-> t] :
                  p \in 1..MaxPageMeta, z \in 1..PageSizeLimit, t \in 0..MaxTotalItems}
    /\ meta = NoneV
    /\ inflight = NoneV

pagination_meta_create ==
    /\ meta = NoneV
    /\ meta' = Some([builder |-> "PaginationMeta.create"]
                     @@ PaginationMetaCreate(pg, pg.total_items))
    /\ UNCHANGED <<store, last, pg, inflight>>

get_pagination_metadata ==
    /\ meta = NoneV
    /\ meta' = Some([builder |-> "Paginator.get_pagination_metadata"]
                     @@ PaginatorGetPaginationMetadata(
                            PaginatorInit(pg.page, pg.page_size), pg.total_items))
    /\ UNCHANGED <<store, last, pg, inflight>>

NextMeta == pagination_meta_create \/ get_pagination_metadata

SpecMeta == InitMeta /\ [][NextMeta]_vars

----------------------------------------------------------------------------
(* The properties *)

\* models/order_v2.py: the values of OrderStatus
OrderStatusEnum == {"pending", "processing", "shipped", "delivered", "cancelled"}

LastIs(opname) == last.op = opname

Succeeded == last.res.code = 0

\* the request passes the structural validation of the pipeline's first step
StructurallyValid(data) ==
    /\ data.user_id \notin {Absent, ""}
    /\ data.items # <<>>
    /\ \A i \in DOMAIN data.items :
          /\ ~IsNone(data.items[i].product_id)
          /\ ~IsNone(data.items[i].size)
          /\ ~IsNone(data.items[i].quantity)

\* no product of the catalog carries this id
Unresolved(pid) == ~ObjectIdIsValid(pid) \/ ObjectId(pid) \notin DOMAIN products

C2_MissingProductsFailWholesale ==
    [][ ( /\ last'.op = "create_order"
          /\ StructurallyValid(last'.req)
          /\ \E i \in DOMAIN last'.req.items :
                Unresolved(last'.req.items[i].product_id[1]) )
        => ( /\ last'.res.code = 404
             /\ \A i \in DOMAIN last'.req.items :
                   Unresolved(last'.req.items[i].product_id[1])
                     => last'.req.items[i].product_id[1] \in SeqToSet(last'.res.value)
             /\ orders' = orders
             /\ nextOrd' = nextOrd ) ]_vars

\* three items, one resolved and two missing, both missing ids named
C2_Witness ==
    /\ LastIs("create_order")
    /\ last.res.code = 404
    /\ Len(last.req.items) = 3
    /\ ~Unresolved(last.req.items[1].product_id[1])
    /\ last.res.value = <<"aa09", "zz">>

\* C3: right after a successful create_order the persisted order, and the
\* order returned, have order_status and payment_status "pending", whatever
\* statuses the request carried.
C3_CreatedOrderIsPending ==
    (LastIs("create_order") /\ Succeeded) =>
        /\ orders[last.res.value.id].order_status = "pending"
        /\ orders[last.res.value.id].payment_status = "pending"
        /\ last.res.value.order_status = "pending"
        /\ last.res.value.payment_status = "pending"

\* the request asked for shipped / paid
C3_Witness ==
    /\ LastIs("create_order") /\ Succeeded
    /\ last.req.order_status = "shipped"
    /\ last.req.payment_status = "paid"

\* C4: after update_order_status(id, s) succeeded, get_order_by_id(id)
\* returns order_status = s.
C4_StatusWrittenIsReadBack ==
    (LastIs("update_order_status") /\ Succeeded /\ last.res.value = TRUE) =>
        /\ GetOrderById(last.req.id).found
        /\ GetOrderById(last.req.id).value.order_status = last.req.status

\* C5: update_order_status with a status outside the five enum values fails
\* with status 400.
C5_InvalidStatusIsClientError ==
    (LastIs("update_order_status") /\ last.req.status \notin OrderStatusEnum) =>
        last.res.code = 400

\* C6: update_order_status with a status outside the five enum values writes
\* nothing: the orders collection is the same before and after.
C6_InvalidStatusWritesNothing ==
    [][ (last'.op = "update_order_status" /\ last'.req.status \notin OrderStatusEnum)
        => orders' = orders ]_vars

\* the call named a stored order
C6_Witness ==
    /\ LastIs("update_order_status")
    /\ last.req.status \notin OrderStatusEnum
    /\ ObjectIdIsValid(last.req.id)
    /\ ObjectId(last.req.id) \in DOMAIN orders

BuiltBy(builder) == meta # NoneV /\ meta[1].builder = builder

\* C7: PaginationMeta.create with total_items = 0 yields total_pages = 0,
\* has_next = false and has_previous = (page > 1).
C7_EmptyResultHasNoPages ==
    (BuiltBy("PaginationMeta.create") /\ pg.total_items = 0) =>
        /\ meta[1].total_pages = 0
        /\ meta[1].has_next = FALSE
        /\ meta[1].has_previous = (pg.page > 1)

\* C8: PaginationMeta.create with total_items >= 1 yields the least
\* total_pages with total_pages * page_size >= total_items, has_previous =
\* (page > 1) and has_next = (page < total_pages).
C8_TotalPagesIsCeiling ==
    (BuiltBy("PaginationMeta.create") /\ pg.total_items >= 1) =>
        /\ meta[1].total_pages * pg.page_size >= pg.total_items
        /\ (meta[1].total_pages - 1) * pg.page_size < pg.total_items
        /\ meta[1].has_previous = (pg.page > 1)
        /\ meta[1].has_next = (pg.page < meta[1].total_pages)
        /\ meta[1].page = pg.page
        /\ meta[1].page_size = pg.page_size
        /\ meta[1].total_items = pg.total_items

\* page_size 10 and 25 items: three pages, the third one the last
C8_Witness ==
    /\ BuiltBy("PaginationMeta.create")
    /\ pg = [page |-> 3, page_size |-> 10, total_items |-> 25]
    /\ meta[1].total_pages = 3
    /\ meta[1].has_previous
    /\ ~meta[1].has_next

\* the filters of the catalog listing as section 4.1 of the specification
\* states them: every filter given must hold
ProductSatisfies(doc, f) ==
    /\ IsNone(f.category) \/ doc.category = f.category[1]
    /\ IsNone(f.brand) \/ doc.brand = f.brand[1]
    /\ IsNone(f.min_price) \/ doc.price >= f.min_price[1]
    /\ IsNone(f.max_price) \/ doc.price <= f.max_price[1]
    /\ IsNone(f.size) \/ \E i \in DOMAIN doc.sizes : doc.sizes[i].size = f.size[1]
    /\ f.in_stock = Some(TRUE) => \E i \in DOMAIN doc.sizes : doc.sizes[i].stock > 0
    /\ f.in_stock = Some(FALSE) => \A i \in DOMAIN doc.sizes : doc.sizes[i].stock = 0
    /\ IsNone(f.search)
          \/ RegexMatchI(doc.name, f.search[1])
          \/ RegexMatchI(doc.description, f.search[1])
          \/ f.search[1] \in doc.tags

\* the filters of the order listing as section 4.2 states them, on the order
\* as get_order_by_id returns it
OrderSatisfies(id, f) ==
    LET o == order_helper(id, orders[id])
    IN  /\ IsNone(f.user_id) \/ o.user_id = f.user_id[1]
        /\ IsNone(f.order_status) \/ o.order_status = f.order_status[1]
        /\ IsNone(f.payment_status) \/ o.payment_status = f.payment_status[1]
        /\ IsNone(f.min_total) \/ o.total >= f.min_total[1]
        /\ IsNone(f.max_total) \/ o.total <= f.max_total[1]

ItemIds(items) == [i \in DOMAIN items |-> items[i].id]

\* C9: list_products and list_orders return total_items = the number of
\* documents that satisfy the filters, and items = the window
\* [skip, skip + limit) of those documents in sort order.
C9_ListIsWindowOfFilteredSet ==
    /\ LastIs("list_orders") =>
          LET f == last.req.filters
              pn == last.req.pagination
              hit == {id \in DOMAIN orders : OrderSatisfies(id, f)}
              sorted == SortBy(hit, [id \in hit |-> orders[id].created_at], TRUE)
          IN  /\ last.res.value.meta.total_items = Cardinality(hit)
              /\ ItemIds(last.res.value.items)
                    = Window(sorted, (pn.page - 1) * pn.page_size, pn.page_size)
    /\ LastIs("list_products") =>
          LET f == last.req.filters
              pn == last.req.pagination
              hit == {id \in DOMAIN products : ProductSatisfies(products[id], f)}
              desc == IsNone(f.sort_by) \/ f.sort_order = "desc"
              sorted == SortBy(hit, [id \in hit |-> products[id].created_at], desc)
          IN  /\ last.res.value.meta.total_items = Cardinality(hit)
              /\ ItemIds(last.res.value.items)
                    = Window(sorted, (pn.page - 1) * pn.page_size, pn.page_size)

\* the products none of whose sizes has stock, those without sizes included
OutOfStock == {id \in DOMAIN products :
                  \A i \in DOMAIN products[id].sizes : products[id].sizes[i].stock = 0}

\* C10: list_products with in_stock=false and no other filter counts exactly
\* the products no size of which has stock > 0, returns only such products,
\* and returns all of them on a page large enough.
C10_InStockFalseSelectsOutOfStock ==
    (LastIs("list_products")
        /\ last.req.filters = [NoFilter EXCEPT !.in_stock = Some(FALSE)]) =>
        LET ids == SeqToSet(ItemIds(last.res.value.items))
            pn == last.req.pagination
        IN  /\ last.res.value.meta.total_items = Cardinality(OutOfStock)
            /\ ids \subseteq OutOfStock
            /\ Len(last.res.value.items) = Cardinality(ids)
            /\ (pn.page = 1 /\ pn.page_size >= Cardinality(OutOfStock))
                  => ids = OutOfStock

\* a product without sizes and one with only empty sizes are returned, one
\* with stock is held back
C10_Witness ==
    /\ LastIs("list_products")
    /\ last.req.filters = [NoFilter EXCEPT !.in_stock = Some(FALSE)]
    /\ \E a, b, c \in DOMAIN products :
          /\ products[a].sizes = << >>
          /\ products[b].sizes # << >>
          /\ b \in OutOfStock
          /\ c \notin OutOfStock
          /\ SeqToSet(ItemIds(last.res.value.items)) = {a, b}

\* C11: in list_products the search group is ANDed with the other filters:
\* when search is given, every product returned satisfies the search group
\* and each other filter given (with in_stock=false, none has a size in
\* stock).
C11_SearchIsAndedWithOtherFilters ==
    (LastIs("list_products") /\ ~IsNone(last.req.filters.search)) =>
        \A i \in DOMAIN last.res.value.items :
            ProductSatisfies(products[last.res.value.items[i].id], last.req.filters)

\* C12: list_orders, on a page that holds every stored order, returns
\* exactly the orders that satisfy the filters on the fields orders are
\* created and returned with (order_status, total).
C12_ListOrdersFiltersOnStoredFields ==
    (LastIs("list_orders") /\ last.req.pagination.page = 1
        /\ Cardinality(DOMAIN orders) <= last.req.pagination.page_size) =>
        SeqToSet(ItemIds(last.res.value.items))
            = {id \in DOMAIN orders : OrderSatisfies(id, last.req.filters)}

\* what an order shows of its pricing: per item the name, unit price and
\* subtotal, and the order's subtotal and total
Snapshot(o) ==
    [items |-> [i \in DOMAIN o.items |->
                   [product_name |-> o.items[i].product_name,
                    price |-> o.items[i].price,
                    subtotal |-> o.items[i].subtotal]],
     subtotal |-> o.subtotal,
     total |-> o.total]

\* C13: no step that writes to the catalog or to the orders, an
\* update_product or delete_product in particular, changes the product_name,
\* price and subtotal of the items, or the subtotal and total, of an order
\* already persisted, as get_order_by_id reads them.
C13_SnapshotPricing ==
    [][ (products' # products \/ orders' # orders) =>
          \A id \in DOMAIN orders :
              /\ id \in DOMAIN orders'
              /\ Snapshot(order_helper(id, orders[id]))'
                    = Snapshot(order_helper(id, orders[id])) ]_vars

\* the price of a product was changed after an order had been priced from it
C13_Witness ==
    /\ LastIs("update_product") /\ last.res.found
    /\ ~IsNone(last.req.update.price)
    /\ \E id \in DOMAIN orders : \E i \in DOMAIN orders[id].items :
          /\ orders[id].items[i].product_id = ObjectId(last.req.id)
          /\ orders[id].items[i].price # products[ObjectId(last.req.id)].price
          /\ order_helper(id, orders[id]).items[i].price = orders[id].items[i].price

\* C14: create_order (whether it succeeds or fails), update_order_status
\* and delete_order leave the products collection as it was.
C14_OrderOperationsLeaveCatalog ==
    [][ last'.op \in {"create_order", "update_order_status", "delete_order"}
        => products' = products ]_vars

\* an order for a size in stock was created and then cancelled; the stock is
\* what the catalog was seeded with
C14_Witness ==
    /\ LastIs("delete_order") /\ Succeeded /\ last.res.value = TRUE
    /\ \E i \in DOMAIN orders[ObjectId(last.req.id)].items :
          LET item == orders[ObjectId(last.req.id)].items[i]
          IN  /\ item.quantity > 0
              /\ item.product_id \in DOMAIN products
              /\ \E k \in DOMAIN products[item.product_id].sizes :
                    /\ products[item.product_id].sizes[k].size = item.size
                    /\ products[item.product_id].sizes[k].stock = 5

\* the product ids of a request, in order
RequestedIds(data) == [i \in DOMAIN data.items |-> data.items[i].product_id[1]]

\* C15: check_products_exist, as create_order calls it, raises on no id:
\* every malformed id of the batch is in missing_ids and none enters the
\* storage query, and each well-formed id is looked up as usual (its record
\* is among the found ones when the catalog has it, it is missing when not).
C15_MalformedIdsAreMissing ==
    (LastIs("create_order") /\ StructurallyValid(last.req)) =>
        LET ids == RequestedIds(last.req)
            checked == CheckProductsExist(ids)
        IN  /\ last.res.code \in {0, 404}
            /\ last.res.code = 404 => last.res.value = checked.missing_ids
            /\ \A oid \in ValidObjectIds(ids) :
                  \E i \in DOMAIN ids : ObjectIdIsValid(ids[i]) /\ ObjectId(ids[i]) = oid
            /\ \A i \in DOMAIN ids :
                  IF ~ObjectIdIsValid(ids[i])
                  THEN ids[i] \in SeqToSet(checked.missing_ids)
                  ELSE /\ ObjectId(ids[i]) \in ValidObjectIds(ids)
                       /\ ObjectId(ids[i]) \in DOMAIN products
                             <=> ObjectId(ids[i]) \in DOMAIN checked.found_products
                       /\ ObjectId(ids[i]) \notin DOMAIN products
                             => ids[i] \in SeqToSet(checked.missing_ids)

\* a malformed id ahead of the id of a catalog product: only the malformed
\* one is reported
C15_Witness ==
    /\ LastIs("create_order")
    /\ RequestedIds(last.req) = <<"zz", "aa01">>
    /\ "aa01" \in DOMAIN products
    /\ last.res.code = 404
    /\ last.res.value = <<"zz">>

\* the structural rules of section 4.2, step 1: user_id present and not
\* empty, items not empty, every item with product_id, size and a
\* quantity > 0
MeetsStructuralRules(data) ==
    /\ StructurallyValid(data)
    /\ \A i \in DOMAIN data.items : data.items[i].quantity[1] > 0

\* C16: create_order answers 400 to every request that breaks a structural
\* rule: user_id absent or empty, items empty, an item without product_id,
\* size or quantity, or an item whose quantity is not positive.
C16_InvalidRequestsRejected ==
    (LastIs("create_order") /\ ~MeetsStructuralRules(last.req)) =>
        last.res.code = 400

\* C17: a structurally valid create_order all of whose product ids are ids
\* of catalog products succeeds, whatever the sizes and quantities asked
\* for, and every item is persisted with the size and quantity of the
\* request, the name and price of its product, and
\* subtotal = round(price * quantity, 2).
C17_SizeAndStockAreNotChecked ==
    (LastIs("create_order") /\ StructurallyValid(last.req)
        /\ \A i \in DOMAIN last.req.items :
              last.req.items[i].product_id[1] \in DOMAIN products) =>
        /\ Succeeded
        /\ LET o == orders[last.res.value.id]
           IN  /\ Len(o.items) = Len(last.req.items)
               /\ \A i \in DOMAIN o.items :
                     /\ {"product_name", "price", "subtotal"} \subseteq DOMAIN o.items[i]
                     /\ o.items[i].size = last.req.items[i].size[1]
                     /\ o.items[i].quantity = last.req.items[i].quantity[1]
                     /\ o.items[i].product_name = products[o.items[i].product_id].name
                     /\ o.items[i].price = products[o.items[i].product_id].price
                     /\ o.items[i].subtotal
                           = Round2(products[o.items[i].product_id].price
                                        * o.items[i].quantity)

\* the stock the product of an item holds in the item's size; 0 when the
\* product has no such size
StockOf(item) ==
    SumSeq([k \in DOMAIN products[item.product_id].sizes |->
               IF products[item.product_id].sizes[k].size = item.size
               THEN products[item.product_id].sizes[k].stock ELSE 0])

\* an order was priced with one item in a size its product does not list and
\* one asking for more than the stock of its size
C17_Witness ==
    /\ LastIs("create_order") /\ Succeeded
    /\ LET o == orders[last.res.value.id]
       IN  /\ \A i \in DOMAIN o.items : o.items[i].product_id \in DOMAIN products
           /\ \E i \in DOMAIN o.items :
                 \A k \in DOMAIN products[o.items[i].product_id].sizes :
                     products[o.items[i].product_id].sizes[k].size # o.items[i].size
           /\ \E i \in DOMAIN o.items :
                 /\ \E k \in DOMAIN products[o.items[i].product_id].sizes :
                       products[o.items[i].product_id].sizes[k].size = o.items[i].size
                 /\ StockOf(o.items[i]) = 0
                 /\ o.items[i].quantity > StockOf(o.items[i])
                 /\ o.items[i].subtotal > 0

\* C18: a successful update_product changes, in the product it names, the
\* fields the body gives a value for and updated_at, which becomes the
\* current time; the other fields of that product, and every other product,
\* are as before.
C18_PartialUpdateFrame ==
    [][ (last'.op = "update_product" /\ last'.res.found) =>
          LET id == ObjectId(last'.req.id)
              upd == last'.req.update
          IN  /\ DOMAIN products' = DOMAIN products
              /\ \A p \in DOMAIN products \ {id} : products'[p] = products[p]
              /\ DOMAIN products'[id] = DOMAIN products[id]
              /\ products'[id].name
                    = IF IsNone(upd.name) THEN products[id].name ELSE upd.name[1]
              /\ products'[id].price
                    = IF IsNone(upd.price) THEN products[id].price ELSE upd.price[1]
              /\ \A f \in DOMAIN products[id] \ {"name", "price", "updated_at"} :
                    products'[id][f] = products[id][f]
              /\ products'[id].updated_at = clock
              /\ products'[id].updated_at > products[id].updated_at
              /\ last'.res.value.price = products'[id].price
              /\ last'.res.value.sizes = products'[id].sizes ]_vars

\* a price-only update of a product that has sizes
C18_Witness ==
    /\ LastIs("update_product") /\ last.res.found
    /\ last.req.update = [name |-> NoneV, price |-> Some(24990)]
    /\ LET doc == products[ObjectId(last.req.id)]
       IN  /\ doc.price = 24990
           /\ doc.name = "Tee"
           /\ Len(doc.sizes) = 2
           /\ doc.updated_at > doc.created_at

\* C19: with a well-formed id and one of the five statuses,
\* update_order_status and delete_order return false exactly when no order
\* has the id, and the PATCH route answers 404 exactly then and succeeds
\* otherwise.
C19_NotFoundIffNoSuchOrder ==
    /\ (last.op \in {"update_order_status", "delete_order"}
           /\ ObjectIdIsValid(last.req.id) /\ last.req.status \in OrderStatusEnum) =>
          /\ Succeeded
          /\ last.res.value = (ObjectId(last.req.id) \in DOMAIN orders)
    /\ (LastIs("route_update_order_status") /\ ObjectIdIsValid(last.req.id)) =>
          IF ObjectId(last.req.id) \in DOMAIN orders
          THEN Succeeded
          ELSE last.res.code = 404

\* C20: after delete_order succeeded on an order, get_order_by_id returns
\* that order with order_status = "cancelled" and with the items, subtotal,
\* shipping_cost, tax and total the stored document has.
C20_CancelIsStatusTransition ==
    (LastIs("delete_order") /\ Succeeded /\ last.res.value = TRUE) =>
        LET got == GetOrderById(last.req.id)
            doc == orders[ObjectId(last.req.id)]
        IN  /\ got.found
            /\ got.value.order_status = "cancelled"
            /\ got.value.subtotal = doc.subtotal
            /\ got.value.total = doc.total

\* the status fields an order document holds: the two the pipeline stores
\* and, once a status update has run on it, the field the update sets
StatusFields(order_doc) ==
    [order_status |-> order_doc.order_status,
     payment_status |-> order_doc.payment_status,
     status |-> IF "status" \in DOMAIN order_doc THEN order_doc.status ELSE Absent]

\* C21: every stored order's order_status, and the status an update has
\* written on it, is one of the five values of OrderStatus; and a step that
\* is not update_order_status or delete_order (the creation of another
\* order, a read, a listing, a product operation) leaves the order_status
\* and payment_status of every order already stored, and the status an
\* update wrote, as they were.
C21_StatusChangesOnlyByStatusOperations ==
    [][ /\ \A id \in DOMAIN orders' :
              /\ orders'[id].order_status \in OrderStatusEnum
              /\ StatusFields(orders'[id]).status \in OrderStatusEnum \cup {Absent}
        /\ last'.op \notin {"update_order_status", "delete_order"}
              => \A id \in DOMAIN orders :
                    /\ id \in DOMAIN orders'
                    /\ StatusFields(orders'[id]) = StatusFields(orders[id]) ]_vars

\* a product was deleted while an order on which a status update has run
\* holds an item of it
C21_Witness ==
    /\ LastIs("delete_product") /\ last.res.value = TRUE
    /\ \E id \in DOMAIN orders :
          /\ StatusFields(orders[id]).status \in OrderStatusEnum
          /\ \E i \in DOMAIN orders[id].items :
                orders[id].items[i].product_id = ObjectId(last.req.id)

\* C22: update_order_status and delete_order, which take no payment status,
\* leave the payment_status of every stored order as it was, in the
\* document and as order_helper reads it; and the update Order.update_status
\* builds sets no payment_status when none is supplied.
C22_StatusUpdateKeepsPaymentStatus ==
    [][ last'.op \in {"update_order_status", "delete_order"}
        => /\ \A id \in DOMAIN orders :
                 /\ id \in DOMAIN orders'
                 /\ orders'[id].payment_status = orders[id].payment_status
                 /\ order_helper(id, orders[id]).payment_status'
                       = order_helper(id, orders[id]).payment_status
           /\ "payment_status" \notin
                 DOMAIN OrderUpdateStatusData(last'.req.status, NoneV, clock) ]_vars

\* an order was cancelled and its payment is still pending
C22_Witness ==
    /\ LastIs("delete_order") /\ Succeeded /\ last.res.value = TRUE
    /\ StatusFields(orders[ObjectId(last.req.id)]).status = "cancelled"
    /\ orders[ObjectId(last.req.id)].payment_status = "pending"
    /\ GetOrderById(last.req.id).value.payment_status = "pending"

\* the request without the monetary fields a client may add to it
WithoutClientPrices(data) ==
    [f \in DOMAIN data \ {"subtotal", "total"} |->
        IF f = "items"
        THEN [i \in DOMAIN data.items |->
                 [g \in {"product_id", "size", "quantity"} |-> data.items[i][g]]]
        ELSE data[f]]

\* C23: the prices of an order just created do not depend on the
\* product_name, price or subtotal the request gives its items, nor on the
\* subtotal or total it gives the order: the stored order is priced as the
\* same request without those fields is on the same catalog, every item
\* with the catalog's name and price.
C23_ClientPricesIgnored ==
    (LastIs("create_order") /\ Succeeded) =>
        LET doc == orders[last.res.value.id]
            bare == WithoutClientPrices(last.req)
            found == CheckProductsExist(RequestedIds(bare)).found_products
        IN  /\ Snapshot(doc) = Snapshot(PricedOrder(bare, found, doc.created_at))
            /\ \A i \in DOMAIN doc.items :
                  /\ doc.items[i].product_name = products[doc.items[i].product_id].name
                  /\ doc.items[i].price = products[doc.items[i].product_id].price
                  /\ doc.items[i].subtotal
                        = Round2(doc.items[i].price * doc.items[i].quantity)
            /\ doc.subtotal = SumSeq([i \in DOMAIN doc.items |-> doc.items[i].subtotal])
            /\ doc.total = Round2(doc.subtotal + doc.shipping_cost + doc.tax)
            /\ last.res.value.total = doc.total

\* an order was created from a request that names a price, a subtotal and
\* a total of its own, none of them the catalog's
C23_Witness ==
    /\ LastIs("create_order") /\ Succeeded
    /\ "total" \in DOMAIN last.req
    /\ last.req.total # orders[last.res.value.id].total
    /\ \E i \in DOMAIN last.req.items :
          /\ "price" \in DOMAIN last.req.items[i]
          /\ last.req.items[i].price # orders[last.res.value.id].items[i].price
          /\ last.req.items[i].subtotal # orders[last.res.value.id].items[i].subtotal

\* C24: every operation keyed by an id (get, update and delete of a
\* product; get, status update and cancellation of an order), called with
\* an id that is not a well-formed ObjectId, returns None or False and
\* raises nothing.
C24_MalformedIdReturnsNotFound ==
    (/\ last.op \in {"get_product", "update_product", "delete_product",
                      "get_order_by_id", "update_order_status", "delete_order"}
     /\ ~ObjectIdIsValid(last.req.id))
        => /\ Succeeded
           /\ ~last.res.found \/ last.res.value = FALSE

\* C25: a call of either service whose storage call raised ends as
\* HTTPException(500) with the message "Internal server error", and the
\* store is as the failed call left it.
C25_StorageFailureIsInternalFailure ==
    ("storage_raises" \in DOMAIN last.req)
        => /\ last.res.code = 500
           /\ last.res.value = <<"Internal server error">>

\* the status a status update last wrote on the order, or the one it was
\* created with
StatusWritten(order_doc) ==
    IF "status" \in DOMAIN order_doc THEN order_doc.status
    ELSE order_doc.order_status

LifecycleRank(status) ==
    CASE status = "pending" -> 1
      [] status = "processing" -> 2
      [] status = "shipped" -> 3
      [] status = "delivered" -> 4
      [] status = "cancelled" -> 5

\* C26: the status of an order moves only forward along pending,
\* processing, shipped, delivered, or to cancelled: no step takes it back
\* to an earlier status, or away from delivered or cancelled.
C26_LifecycleOnlyForward ==
    [][ \A id \in DOMAIN orders :
          /\ id \in DOMAIN orders'
          /\ LET before == StatusWritten(orders[id])
                 after == StatusWritten(orders'[id])
             IN  \/ after = before
                 \/ /\ before \notin {"delivered", "cancelled"}
                    /\ after = "cancelled" \/ LifecycleRank(after) > LifecycleRank(before)
      ]_vars

\* C27: check_products_exist puts every requested id on exactly one side,
\* found when a product of the catalog has that id, in whatever well-formed
\* spelling the request writes it, missing otherwise; so a create_order that
\* ends in 404 names as missing only ids no product carries.
C27_ExistingProductIsNeverMissing ==
    (LastIs("create_order") /\ ValidateOrderData(last.req) = 0) =>
        LET checked == CheckProductsExist(RequestedIds(last.req))
        IN  /\ \A i \in DOMAIN RequestedIds(last.req) :
                  LET pid == RequestedIds(last.req)[i]
                  IN  (pid \in SeqToSet(checked.missing_ids)) <=> Unresolved(pid)
            /\ last.res.code = 404
                  => \A k \in DOMAIN last.res.value : Unresolved(last.res.value[k])

\* C28: every stored order has at least one item, and every item of a
\* stored order carries the product_name, price and subtotal the pipeline
\* wrote, not defaults filled in when the order is read.
C28_StoredItemsArePriced ==
    \A id \in DOMAIN orders :
        /\ Len(orders[id].items) >= 1
        /\ \A i \in DOMAIN orders[id].items :
              /\ {"product_name", "price", "subtotal"} \subseteq DOMAIN orders[id].items[i]
              /\ order_helper(id, orders[id]).items[i] = orders[id].items[i]

\* an order with two items of different products is stored, and a status
\* update has run on it
C28_Witness ==
    \E id \in DOMAIN orders :
        /\ Len(orders[id].items) = 2
        /\ orders[id].items[1].product_id # orders[id].items[2].product_id
        /\ "status" \in DOMAIN orders[id]

\* C29: when the insert of an order follows its lookup, with product
\* updates and deletions of other requests in between, every item of the
\* stored order carries the name and the unit price its product had in the
\* result of the lookup, so two items of the same product carry the same
\* name and price; and this stays so for every order stored.
C29_OrderPricedFromLookup ==
    [][ /\ (inflight # NoneV /\ inflight' = NoneV)
            => LET doc == orders'[OrderOids[nextOrd]]
                   seen == inflight[1].existing_products
               IN  \A i \in DOMAIN doc.items :
                      /\ {"product_name", "price"} \subseteq DOMAIN doc.items[i]
                      /\ doc.items[i].price = seen[doc.items[i].product_id].price
                      /\ doc.items[i].product_name = seen[doc.items[i].product_id].name
        /\ \A id \in DOMAIN orders' :
              \A i, j \in DOMAIN orders'[id].items :
                 orders'[id].items[i].product_id = orders'[id].items[j].product_id
                    => /\ orders'[id].items[i].price = orders'[id].items[j].price
                       /\ orders'[id].items[i].product_name
                             = orders'[id].items[j].product_name ]_vars

\* an order with two items of one product was inserted after the price of
\* that product had changed, or the product had gone, since the lookup
C29_Witness ==
    /\ LastIs("create_order") /\ Succeeded
    /\ LET doc == orders[last.res.value.id]
       IN  /\ Len(doc.items) = 2
           /\ doc.items[1].product_id = doc.items[2].product_id
           /\ \/ doc.items[1].product_id \notin DOMAIN products
              \/ products[doc.items[1].product_id].price # doc.items[1].price

\* C30: the page a listing returns, with creations and deletions of other
\* requests between its count and its find, holds as many items as its
\* total_items leaves for the page:
\* len(items) = min(page_size, max(0, total_items - skip)).
C30_PageAgreesWithTotal ==
    (last.op \in {"list_products", "list_orders"} /\ Succeeded) =>
        LET page_size == last.req.pagination.page_size
            rest == last.res.value.meta.total_items - PaginationSkip(last.req.pagination)
            left == IF rest > 0 THEN rest ELSE 0
        IN  Len(last.res.value.items) = (IF page_size < left THEN page_size ELSE left)

====
